---- MODULE Spec2Model ----
(***************************************************************************)
(* Rate-governed producer/consumer pipeline of                             *)
(* books/software-architecture-with-python/Chapter05/                      *)
(* thumbnail_url_controller.py: a controller thread, producer threads      *)
(* (ThumbnailURL_Generator), consumer threads (ThumbnailURL_Consumer), a   *)
(* bounded queue.Queue, a BoundedSemaphore guard (ThumbnailImageSemaSaver) *)
(* and the __main__ orchestrator.                                          *)
(*                                                                         *)
(* Time is a discrete clock `now` (ticks since controller.start_t).        *)
(* Rates and sleep times are exact rationals kept as scaled integers:      *)
(* a rate r is stored as r * LcmTime, a sleep time s as s * SleepScale.    *)
(* Queue items carry a ghost tag: the ordinal of the completed put.        *)
(***************************************************************************)
EXTENDS Integers, Sequences, FiniteSets, TLC

\* ---------------------------------------------------------------- bounds
NProducers == 2
NConsumers == 2
Capacity == 2
Limit == 2
RateLimit == 210
MaxTime == 3
MaxExtra == 3
MaxFail == 1

\* ------------------------------------------------------ program constants
WarmUp == 5
InitSleep == 1

VARIABLES
    nconsumers,   \* number of consumer threads __main__ creates
    maxsize,      \* q.maxsize
    limit,        \* saver.limit
    rate_limit,   \* controller.rate_limit
    queue,        \* q: sequence of item tags, head first
    putSeq,       \* ghost: number of completed puts
    outLog,       \* ghost: tags removed by get, in removal order
    drained,      \* ghost: number of items removed by the orchestrator's drain
    now,          \* time.time() - controller.start_t, in ticks
    count,        \* controller.count
    ctrlFlag,     \* controller.flag
    ctrlPc,       \* controller thread position
    pflag,        \* producer.flag
    ppc,          \* producer thread position
    preg,         \* producer: value of controller.count read by `count += 1`
    sleep_time,   \* producer.sleep_time * SleepScale
    wake,         \* producer: earliest tick at which time.sleep returns
    sem,          \* saver.counter (BoundedSemaphore value)
    cflag,        \* consumer.flag
    cpc,          \* consumer thread position
    ccount,       \* consumer.count
    curl,         \* consumer: url held (0 = none)
    invocations,  \* ghost: save() calls made
    admitted,     \* ghost: save() calls that returned True
    denied,       \* ghost: save() calls that returned False
    raised,       \* ghost: save() calls that ended by raising
    released,     \* ghost: release() calls made
    nfail,        \* ghost: external failures injected so far
    mainPc,       \* orchestrator position
    mainIdx       \* orchestrator loop index

vars == <<nconsumers, maxsize, limit, rate_limit, queue, putSeq, outLog, drained, now,
          count, ctrlFlag, ctrlPc, pflag, ppc, preg, sleep_time, wake,
          sem, cflag, cpc, ccount, curl, invocations, admitted, denied,
          raised, released, nfail, mainPc, mainIdx>>

cfgVars == <<nconsumers, maxsize, limit, rate_limit>>
queueVars == <<queue, putSeq, outLog, drained>>
ctrlVars == <<count, ctrlFlag, ctrlPc>>
prodVars == <<pflag, ppc, preg, sleep_time, wake>>
saverVars == <<sem, invocations, admitted, denied, raised, released, nfail>>
consVars == <<cflag, cpc, ccount, curl>>
mainVars == <<mainPc, mainIdx>>

Producers == 1..NProducers

Consumers == 1..nconsumers

\* the model follows the producers for MaxPuts puts: what the consumers can
\* take before all of them have stopped, and MaxExtra more
MaxPuts == limit + nconsumers + MaxFail + MaxExtra

\* ------------------------------------------------------------ arithmetic
RECURSIVE Gcd(_, _)
Gcd(a, b) == IF b = 0 THEN a ELSE Gcd(b, a % b)

RECURSIVE LcmUpTo(_)
LcmUpTo(n) == IF n <= 1 THEN 1 ELSE (LcmUpTo(n - 1) * n) \div Gcd(LcmUpTo(n - 1), n)

LcmTime == LcmUpTo(MaxTime)

Abs(x) == IF x < 0 THEN 0 - x ELSE x

Max(a, b) == IF a >= b THEN a ELSE b

Min(a, b) == IF a <= b THEN a ELSE b

\* nthreads passed to the controller: the number of producer threads
nthreads == NProducers

\* sleep_time is stored multiplied by SleepScale
SleepScale == LcmTime * nthreads * 60

\* ------------------------------------------------- queue.Queue operations
\* a full() that lets one item too many in
full_off_by_one(q) == maxsize > 0 /\ Len(q) > maxsize

\* Queue.full(): a maxsize <= 0 means an unbounded queue
full(q) == maxsize > 0 /\ Len(q) >= maxsize

\* Queue.empty()
empty(q) == Len(q) = 0

\* Queue.put appends at the tail
put(q, item) == Append(q, item)

\* a get that takes the item put last
get_item_last(q) == q[Len(q)]

\* Queue.get returns the head ...
get_item(q) == Head(q)

\* ... and removes it
get_rest(q) == Tail(q)

\* ------------------------------------- threading.BoundedSemaphore operations
\* an acquire that still succeeds at value 0
acquire_ok_at_zero(v) == v >= 0

\* counter.acquire(blocking=False) succeeds iff the value is positive
acquire_ok(v) == v > 0

acquire_value(v) == v - 1

\* BoundedSemaphore.release raises ValueError when the value would pass the
\* initial value
release_raises(v) == v >= limit

\* a release that gives back two slots
release_value_twice(v) == v + 2

release_value(v) == v + 1

\* ------------------------------------------------ ThumbnailURLController
\* increment: `self.count += 1` stores (the value read) + 1
increment(read) == read + 1

\* calc_rate raises ZeroDivisionError when no time has elapsed
calc_rate_raises(elapsed) == elapsed = 0

\* calc_rate: 60.0 * count / elapsed, stored multiplied by LcmTime
calc_rate(c, elapsed) == 60 * c * (LcmTime \div elapsed)

\* rate_limit on the same scale
scaled_limit == rate_limit * LcmTime

\* throttle: diff = abs(rate - rate_limit); sleep_diff = diff / (nthreads * 60.0),
\* stored multiplied by SleepScale = LcmTime * nthreads * 60
sleep_diff(rate) == Abs(rate - scaled_limit)

\* the signed difference added instead of its magnitude
sleep_more_signed(st, rate) == st + (scaled_limit - rate)

\* throttle, rate > rate_limit: thread.sleep_time += sleep_diff
sleep_more(st, rate) == st + sleep_diff(rate)

\* the subtraction without the floor
sleep_less_unfloored(st, rate) == st - sleep_diff(rate)

\* throttle, rate < rate_limit: thread.sleep_time = max(0, sleep_time - sleep_diff)
sleep_less(st, rate) == Max(0, st - sleep_diff(rate))

\* time.sleep(sleep_time) returns no earlier than sleep_time later; the clock
\* saturates at MaxTime
wake_time(st) == Min(MaxTime, now + (st \div SleepScale))

\* ------------------------------------------------------------------ Init
TypeOK ==
    /\ nconsumers \in Nat /\ maxsize \in Int /\ limit \in Int /\ rate_limit \in Int
    /\ queue \in Seq(1..MaxPuts)
    /\ putSeq \in 0..MaxPuts
    /\ outLog \in Seq(1..MaxPuts)
    /\ drained \in 0..MaxPuts
    /\ now \in 0..MaxTime
    /\ count \in 0..MaxPuts
    /\ ctrlFlag \in BOOLEAN
    /\ ctrlPc \in {"unstarted", "run", "notify", "done", "crashed"}
    /\ pflag \in [Producers -> BOOLEAN]
    /\ ppc \in [Producers -> {"unstarted", "run", "put", "inc_read", "inc_write",
                              "warm", "throttle", "cond", "wait", "done", "crashed"}]
    /\ preg \in [Producers -> 0..MaxPuts]
    /\ sleep_time \in [Producers -> Nat]
    /\ wake \in [Producers -> 0..MaxTime]
    /\ sem \in Int
    /\ cflag \in [Consumers -> BOOLEAN]
    /\ cpc \in [Consumers -> {"unstarted", "run", "save", "image", "done", "crashed"}]
    /\ ccount \in [Consumers -> 0..MaxPuts]
    /\ curl \in [Consumers -> 0..MaxPuts]
    /\ invocations \in Nat /\ admitted \in Nat /\ denied \in Nat
    /\ raised \in Nat /\ released \in Nat /\ nfail \in 0..MaxFail
    /\ mainPc \in {"construct", "failed",
                   "start_controller", "start_producers", "start_consumers",
                   "join_consumers", "drain", "stop_controller", "join_controller",
                   "stop_producers", "done"}
    /\ mainIdx \in 0..(NProducers + 1)

\* the state after the constructors of __main__ have run, for the given
\* number of consumers, Queue(maxsize), ThumbnailImageSemaSaver(limit) and
\* controller rate_limit
InitWith(nc, m, l, r) ==
    /\ nconsumers = nc
    /\ maxsize = m /\ limit = l /\ rate_limit = r
    /\ queue = <<>> /\ putSeq = 0 /\ outLog = <<>> /\ drained = 0
    /\ now = 0
    /\ count = 0 /\ ctrlFlag = TRUE /\ ctrlPc = "unstarted"
    /\ pflag = [p \in Producers |-> TRUE]
    /\ ppc = [p \in Producers |-> "unstarted"]
    /\ preg = [p \in Producers |-> 0]
    /\ sleep_time = [p \in Producers |-> InitSleep * SleepScale]
    /\ wake = [p \in Producers |-> 0]
    /\ sem = l
    /\ cflag = [c \in 1..nc |-> TRUE]
    /\ cpc = [c \in 1..nc |-> "unstarted"]
    /\ ccount = [c \in 1..nc |-> 0]
    /\ curl = [c \in 1..nc |-> 0]
    /\ invocations = 0 /\ admitted = 0 /\ denied = 0
    /\ raised = 0 /\ released = 0 /\ nfail = 0
    /\ mainPc = "start_controller" /\ mainIdx = 0

Init == InitWith(NConsumers, Capacity, Limit, RateLimit)

\* ----------------------------------------------------------------- clock
\* time.time() advances by one tick
Tick ==
    /\ now < MaxTime
    /\ now' = now + 1
    /\ UNCHANGED <<cfgVars, queueVars, ctrlVars, prodVars, saverVars, consVars, mainVars>>

\* ------------------------------------------- ThumbnailURLController.run
\* `while self.flag: rate = self.calc_rate(); if rate < self.rate_limit:`
\* (flag is written by stop() alone and calc_rate only reads, so the loop
\* test and the rate computation are taken as one step)
Ctrl_run ==
    /\ ctrlPc = "run"
    /\ ctrlPc' = IF ~ctrlFlag THEN "done"
                 ELSE IF calc_rate_raises(now) THEN "crashed"
                 ELSE IF calc_rate(count, now) < scaled_limit THEN "notify"
                 ELSE "run"
    /\ UNCHANGED <<cfgVars, queueVars, now, count, ctrlFlag, prodVars, saverVars,
                   consVars, mainVars>>

\* a notification that wakes no waiting thread
Ctrl_notify_all_lost ==
    /\ ctrlPc = "notify"
    /\ ctrlPc' = "run"
    /\ UNCHANGED <<cfgVars, queueVars, now, count, ctrlFlag, prodVars, saverVars,
                   consVars, mainVars>>

\* `with self.cond: self.cond.notify_all()`: every thread waiting on the
\* condition is woken and has to re-acquire the lock and re-test its loop
Ctrl_notify_all ==
    /\ ctrlPc = "notify"
    /\ ppc' = [p \in Producers |-> IF ppc[p] = "wait" THEN "cond" ELSE ppc[p]]
    /\ ctrlPc' = "run"
    /\ UNCHANGED <<cfgVars, queueVars, now, count, ctrlFlag, pflag, preg, sleep_time,
                   wake, saverVars, consVars, mainVars>>

\* ------------------------------------------- ThumbnailURL_Generator.run
\* number of producers that have passed the loop test and not yet put
InFlight == Cardinality({p \in Producers : ppc[p] = "put"})

\* time.sleep(self.sleep_time) returns, then `while self.flag:` and the url is
\* generated (the first iteration sleeps for nothing: wake = 0)
Gen_run(p) ==
    /\ ppc[p] = "run"
    /\ now >= wake[p]
    /\ pflag[p] => putSeq + InFlight < MaxPuts
    /\ ppc' = [ppc EXCEPT ![p] = IF pflag[p] THEN "put" ELSE "done"]
    /\ wake' = [wake EXCEPT ![p] = 0]
    /\ UNCHANGED <<cfgVars, queueVars, now, ctrlVars, pflag, preg, sleep_time,
                   saverVars, consVars, mainVars>>

\* `self.queue.put(url)`: blocks while the queue is full
Gen_put(p) ==
    /\ ppc[p] = "put"
    /\ ~full(queue)
    /\ queue' = put(queue, putSeq + 1)
    /\ putSeq' = putSeq + 1
    /\ ppc' = [ppc EXCEPT ![p] = "inc_read"]
    /\ UNCHANGED <<cfgVars, outLog, drained, now, ctrlVars, pflag, preg, sleep_time,
                   wake, saverVars, consVars, mainVars>>

\* `self.controller.increment()`: `self.count += 1` reads count ...
Gen_increment_read(p) ==
    /\ ppc[p] = "inc_read"
    /\ preg' = [preg EXCEPT ![p] = count]
    /\ ppc' = [ppc EXCEPT ![p] = "inc_write"]
    /\ UNCHANGED <<cfgVars, queueVars, now, ctrlVars, pflag, sleep_time, wake,
                   saverVars, consVars, mainVars>>

\* ... and stores the value read plus one
Gen_increment_write(p) ==
    /\ ppc[p] = "inc_write"
    /\ count' = increment(preg[p])
    /\ preg' = [preg EXCEPT ![p] = 0]
    /\ ppc' = [ppc EXCEPT ![p] = "warm"]
    /\ UNCHANGED <<cfgVars, queueVars, now, ctrlFlag, ctrlPc, pflag, sleep_time, wake,
                   saverVars, consVars, mainVars>>

\* the warm-up test passing already at the threshold
Gen_warm_at_threshold(p) ==
    /\ ppc[p] = "warm"
    /\ IF count >= WarmUp
       THEN /\ ppc' = [ppc EXCEPT ![p] = "throttle"]
            /\ wake' = wake
       ELSE /\ ppc' = [ppc EXCEPT ![p] = "run"]
            /\ wake' = [wake EXCEPT ![p] = wake_time(sleep_time[p])]
    /\ UNCHANGED <<cfgVars, queueVars, now, ctrlVars, pflag, preg, sleep_time,
                   saverVars, consVars, mainVars>>

\* `if self.controller.count > 5: self.controller.throttle(self)`, else
\* straight to `time.sleep(self.sleep_time)`
Gen_warm(p) ==
    /\ ppc[p] = "warm"
    /\ IF count > WarmUp
       THEN /\ ppc' = [ppc EXCEPT ![p] = "throttle"]
            /\ wake' = wake
       ELSE /\ ppc' = [ppc EXCEPT ![p] = "run"]
            /\ wake' = [wake EXCEPT ![p] = wake_time(sleep_time[p])]
    /\ UNCHANGED <<cfgVars, queueVars, now, ctrlVars, pflag, preg, sleep_time,
                   saverVars, consVars, mainVars>>

\* throttle adjusting one sleep_time shared by every producer
Ctrl_throttle_shared(p) ==
    /\ ppc[p] = "throttle"
    /\ IF calc_rate_raises(now)
       THEN /\ ppc' = [ppc EXCEPT ![p] = "crashed"]
            /\ UNCHANGED <<sleep_time, wake>>
       ELSE LET rate == calc_rate(count, now) IN
            IF rate > scaled_limit
            THEN /\ sleep_time' = [q \in Producers |-> sleep_more(sleep_time[p], rate)]
                 /\ ppc' = [ppc EXCEPT ![p] = "cond"]
                 /\ wake' = wake
            ELSE IF rate < scaled_limit
            THEN /\ sleep_time' = [q \in Producers |-> sleep_less(sleep_time[p], rate)]
                 /\ ppc' = [ppc EXCEPT ![p] = "run"]
                 /\ wake' = [wake EXCEPT ![p] = wake_time(sleep_less(sleep_time[p], rate))]
            ELSE /\ sleep_time' = sleep_time
                 /\ ppc' = [ppc EXCEPT ![p] = "run"]
                 /\ wake' = [wake EXCEPT ![p] = wake_time(sleep_time[p])]
    /\ UNCHANGED <<cfgVars, queueVars, now, ctrlVars, pflag, preg, saverVars,
                   consVars, mainVars>>

\* ---------------------------------------- ThumbnailURLController.throttle
\* lines 89-97 and 103-109: rate, diff, sleep_diff and the adjustment of the
\* calling thread's sleep_time
Ctrl_throttle(p) ==
    /\ ppc[p] = "throttle"
    /\ IF calc_rate_raises(now)
       THEN /\ ppc' = [ppc EXCEPT ![p] = "crashed"]
            /\ UNCHANGED <<sleep_time, wake>>
       ELSE LET rate == calc_rate(count, now) IN
            IF rate > scaled_limit
            THEN /\ sleep_time' = [sleep_time EXCEPT ![p] = sleep_more(@, rate)]
                 /\ ppc' = [ppc EXCEPT ![p] = "cond"]
                 /\ wake' = wake
            ELSE IF rate < scaled_limit
            THEN /\ sleep_time' = [sleep_time EXCEPT ![p] = sleep_less(@, rate)]
                 /\ ppc' = [ppc EXCEPT ![p] = "run"]
                 /\ wake' = [wake EXCEPT ![p] = wake_time(sleep_less(sleep_time[p], rate))]
            ELSE /\ sleep_time' = sleep_time
                 /\ ppc' = [ppc EXCEPT ![p] = "run"]
                 /\ wake' = [wake EXCEPT ![p] = wake_time(sleep_time[p])]
    /\ UNCHANGED <<cfgVars, queueVars, now, ctrlVars, pflag, preg, saverVars,
                   consVars, mainVars>>

\* lines 99-102: `with self.cond: while self.calc_rate() > self.rate_limit:
\* self.cond.wait()`. The test and the wait happen with the condition's lock
\* held, and notify_all needs that lock, so test-and-wait is one step.
Ctrl_throttle_wait(p) ==
    /\ ppc[p] = "cond"
    /\ IF calc_rate_raises(now)
       THEN /\ ppc' = [ppc EXCEPT ![p] = "crashed"]
            /\ wake' = wake
       ELSE IF calc_rate(count, now) > scaled_limit
       THEN /\ ppc' = [ppc EXCEPT ![p] = "wait"]
            /\ wake' = wake
       ELSE /\ ppc' = [ppc EXCEPT ![p] = "run"]
            /\ wake' = [wake EXCEPT ![p] = wake_time(sleep_time[p])]
    /\ UNCHANGED <<cfgVars, queueVars, now, ctrlVars, pflag, preg, sleep_time,
                   saverVars, consVars, mainVars>>

\* -------------------------------------------- ThumbnailURL_Consumer.run
\* `while self.flag: url = self.queue.get(); self.count += 1`: get blocks
\* while the queue is empty (flag and count belong to this thread alone)
Con_get(c) ==
    /\ cpc[c] = "run"
    /\ cflag[c] => ~empty(queue)
    /\ IF cflag[c]
       THEN /\ curl' = [curl EXCEPT ![c] = get_item(queue)]
            /\ queue' = get_rest(queue)
            /\ outLog' = Append(outLog, get_item(queue))
            /\ ccount' = [ccount EXCEPT ![c] = @ + 1]
            /\ cpc' = [cpc EXCEPT ![c] = "save"]
       ELSE /\ cpc' = [cpc EXCEPT ![c] = "done"]
            /\ UNCHANGED <<curl, queue, outLog, ccount>>
    /\ UNCHANGED <<cfgVars, putSeq, drained, now, ctrlVars, prodVars, saverVars,
                   cflag, mainVars>>

\* ------------------------------------------ ThumbnailImageSemaSaver.save
\* `if self.acquire():` ... `else: return False`, on which the consumer
\* breaks out of its loop
Saver_save(c) ==
    /\ cpc[c] = "save"
    /\ invocations' = invocations + 1
    /\ IF acquire_ok(sem)
       THEN /\ sem' = acquire_value(sem)
            /\ cpc' = [cpc EXCEPT ![c] = "image"]
            /\ UNCHANGED <<denied, curl>>
       ELSE /\ sem' = sem
            /\ denied' = denied + 1
            /\ cpc' = [cpc EXCEPT ![c] = "done"]
            /\ curl' = [curl EXCEPT ![c] = 0]
    /\ UNCHANGED <<cfgVars, queueVars, now, ctrlVars, prodVars, admitted, raised,
                   released, nfail, cflag, ccount, mainVars>>

\* thumbnail_image runs to its end without an error; save returns True
Saver_thumbnail_image(c) ==
    /\ cpc[c] = "image"
    /\ admitted' = admitted + 1
    /\ cpc' = [cpc EXCEPT ![c] = "run"]
    /\ curl' = [curl EXCEPT ![c] = 0]
    /\ UNCHANGED <<cfgVars, queueVars, now, ctrlVars, prodVars, sem, invocations,
                   denied, raised, released, nfail, cflag, ccount, mainVars>>

\* an exception inside the try block (im.thumbnail / im.save): the handler
\* calls self.release(), thumbnail_image returns True and so does save
Saver_thumbnail_image_save_error(c) ==
    /\ cpc[c] = "image"
    /\ nfail < MaxFail
    /\ nfail' = nfail + 1
    /\ IF release_raises(sem)
       THEN /\ raised' = raised + 1
            /\ cpc' = [cpc EXCEPT ![c] = "crashed"]
            /\ UNCHANGED <<sem, released, admitted>>
       ELSE /\ sem' = release_value(sem)
            /\ released' = released + 1
            /\ admitted' = admitted + 1
            /\ cpc' = [cpc EXCEPT ![c] = "run"]
            /\ raised' = raised
    /\ curl' = [curl EXCEPT ![c] = 0]
    /\ UNCHANGED <<cfgVars, queueVars, now, ctrlVars, prodVars, invocations, denied,
                   cflag, ccount, mainVars>>

\* an exception at line 225, Image.open(urllib.request.urlopen(url)), which
\* is outside the try block: it leaves thumbnail_image, save and the
\* consumer's run, and the thread ends
Saver_thumbnail_image_open_error(c) ==
    /\ cpc[c] = "image"
    /\ nfail < MaxFail
    /\ nfail' = nfail + 1
    /\ raised' = raised + 1
    /\ cpc' = [cpc EXCEPT ![c] = "crashed"]
    /\ curl' = [curl EXCEPT ![c] = 0]
    /\ UNCHANGED <<cfgVars, queueVars, now, ctrlVars, prodVars, sem, invocations,
                   admitted, denied, released, cflag, ccount, mainVars>>

\* -------------------------------------------------------------- __main__
ThreadEnded(pc) == pc \in {"done", "crashed"}

\* controller.start()
Main_start_controller ==
    /\ mainPc = "start_controller"
    /\ ctrlPc' = "run"
    /\ mainPc' = "start_producers"
    /\ UNCHANGED <<cfgVars, queueVars, now, count, ctrlFlag, prodVars, saverVars,
                   consVars, mainIdx>>

\* the loop that creates and starts the producers
Main_start_producers ==
    /\ mainPc = "start_producers"
    /\ ppc' = [p \in Producers |-> "run"]
    /\ mainPc' = "start_consumers"
    /\ UNCHANGED <<cfgVars, queueVars, now, ctrlVars, pflag, preg, sleep_time, wake,
                   saverVars, consVars, mainIdx>>

\* the loop that creates and starts the consumers
Main_start_consumers ==
    /\ mainPc = "start_consumers"
    /\ cpc' = [c \in Consumers |-> "run"]
    /\ mainPc' = "join_consumers"
    /\ UNCHANGED <<cfgVars, queueVars, now, ctrlVars, prodVars, saverVars, cflag,
                   ccount, curl, mainIdx>>

\* the orchestrator going on without waiting for the consumers
Main_join_consumers_no_wait ==
    /\ mainPc = "join_consumers"
    /\ mainPc' = "drain"
    /\ UNCHANGED <<cfgVars, queueVars, now, ctrlVars, prodVars, saverVars, consVars,
                   mainIdx>>

\* `for t in consumers: t.join()`
Main_join_consumers ==
    /\ mainPc = "join_consumers"
    /\ \A c \in Consumers : ThreadEnded(cpc[c])
    /\ mainPc' = "drain"
    /\ UNCHANGED <<cfgVars, queueVars, now, ctrlVars, prodVars, saverVars, consVars,
                   mainIdx>>

\* `while not q.empty(): item = q.get()` (no other thread removes items any
\* more, so the test and the get are one step)
Main_drain ==
    /\ mainPc = "drain"
    /\ IF empty(queue)
       THEN /\ mainPc' = "stop_controller"
            /\ UNCHANGED <<queue, outLog, drained>>
       ELSE /\ queue' = get_rest(queue)
            /\ outLog' = Append(outLog, get_item(queue))
            /\ drained' = drained + 1
            /\ mainPc' = mainPc
    /\ UNCHANGED <<cfgVars, putSeq, now, ctrlVars, prodVars, saverVars, consVars,
                   mainIdx>>

\* controller.stop(): `self.flag = False` ...
Main_stop_controller ==
    /\ mainPc = "stop_controller"
    /\ ctrlFlag' = FALSE
    /\ mainPc' = "join_controller"
    /\ UNCHANGED <<cfgVars, queueVars, now, count, ctrlPc, prodVars, saverVars,
                   consVars, mainIdx>>

\* ... `self.join()`
Main_join_controller ==
    /\ mainPc = "join_controller"
    /\ ThreadEnded(ctrlPc)
    /\ mainPc' = "stop_producers"
    /\ mainIdx' = 1
    /\ UNCHANGED <<cfgVars, queueVars, now, ctrlVars, prodVars, saverVars, consVars>>

\* `for t in producers: t.stop()`: one producer's flag per step
Main_stop_producers ==
    /\ mainPc = "stop_producers"
    /\ pflag' = [pflag EXCEPT ![mainIdx] = FALSE]
    /\ mainIdx' = mainIdx + 1
    /\ mainPc' = IF mainIdx = NProducers THEN "done" ELSE mainPc
    /\ UNCHANGED <<cfgVars, queueVars, now, ctrlVars, ppc, preg, sleep_time, wake,
                   saverVars, consVars>>

\* ------------------------------------------------------- specifications
Next ==
    \/ Tick
    \/ Ctrl_run
    \/ Ctrl_notify_all
    \/ \E p \in Producers : Gen_run(p)
    \/ \E p \in Producers : Gen_put(p)
    \/ \E p \in Producers : Gen_increment_read(p)
    \/ \E p \in Producers : Gen_increment_write(p)
    \/ \E p \in Producers : Gen_warm(p)
    \/ \E p \in Producers : Ctrl_throttle(p)
    \/ \E p \in Producers : Ctrl_throttle_wait(p)
    \/ \E c \in Consumers : Con_get(c)
    \/ \E c \in Consumers : Saver_save(c)
    \/ \E c \in Consumers : Saver_thumbnail_image(c)
    \/ \E c \in Consumers : Saver_thumbnail_image_save_error(c)
    \/ \E c \in Consumers : Saver_thumbnail_image_open_error(c)
    \/ Main_start_controller
    \/ Main_start_producers
    \/ Main_start_consumers
    \/ Main_join_consumers
    \/ Main_drain
    \/ Main_stop_controller
    \/ Main_join_controller
    \/ Main_stop_producers

Spec == Init /\ [][Next]_vars

\* the steps of one thread
ControllerStep == Ctrl_run \/ Ctrl_notify_all

ProducerStep(p) ==
    \/ Gen_run(p) \/ Gen_put(p) \/ Gen_increment_read(p) \/ Gen_increment_write(p)
    \/ Gen_warm(p) \/ Ctrl_throttle(p) \/ Ctrl_throttle_wait(p)

ConsumerStep(c) ==
    \/ Con_get(c) \/ Saver_save(c) \/ Saver_thumbnail_image(c)
    \/ Saver_thumbnail_image_save_error(c) \/ Saver_thumbnail_image_open_error(c)

MainStep ==
    \/ Main_start_controller \/ Main_start_producers \/ Main_start_consumers
    \/ Main_join_consumers \/ Main_drain \/ Main_stop_controller
    \/ Main_join_controller \/ Main_stop_producers

\* the operating system schedules every thread that can take a step, and
\* the clock advances
Fairness ==
    /\ WF_vars(Tick)
    /\ WF_vars(ControllerStep)
    /\ WF_vars(MainStep)
    /\ \A p \in Producers : WF_vars(ProducerStep(p))
    /\ \A c \in 1..NConsumers : WF_vars(c \in Consumers /\ ConsumerStep(c))

FairSpec == Init /\ [][Next]_vars /\ Fairness

\* ------------------------------------------- the end-to-end scenario
\* The scenario of the end-to-end test: 3 consumers, capacity 5, limit 20,
\* target rate 600 (and the NProducers = 2 producers), with no save failure,
\* under coarse-grained scheduling: the interpreter switches threads only
\* where the running thread is at the head of its loop, is blocked (put on a
\* full queue, wait, join) or has ended, and of the consumers that can run
\* it picks the one created first. Every behaviour of SpecE2E is a behaviour
\* of the program under one of its possible schedules.
InitE2E == InitWith(3, 5, 20, 600)

CtrlAtYield == ctrlPc \in {"unstarted", "run", "done", "crashed"}

GenAtYield(p) ==
    \/ ppc[p] \in {"unstarted", "run", "wait", "done", "crashed"}
    \/ ppc[p] = "put" /\ full(queue)

ConAtYield(c) == cpc[c] \in {"unstarted", "run", "done", "crashed"}

CtrlMayRun == (\A p \in Producers : GenAtYield(p)) /\ (\A c \in Consumers : ConAtYield(c))

GenMayRun(p) ==
    /\ CtrlAtYield
    /\ \A q \in Producers \ {p} : GenAtYield(q)
    /\ \A c \in Consumers : ConAtYield(c)

ConMayRun(c) ==
    /\ CtrlAtYield
    /\ \A p \in Producers : GenAtYield(p)
    /\ \A d \in Consumers \ {c} : ConAtYield(d)
    /\ \A d \in 1..(c - 1) : ThreadEnded(cpc[d])

MainMayRun == CtrlAtYield /\ CtrlMayRun

NextE2E ==
    \/ Tick
    \/ CtrlMayRun /\ Ctrl_run
    \/ CtrlMayRun /\ Ctrl_notify_all
    \/ \E p \in Producers : GenMayRun(p) /\ Gen_run(p)
    \/ \E p \in Producers : GenMayRun(p) /\ Gen_put(p)
    \/ \E p \in Producers : GenMayRun(p) /\ Gen_increment_read(p)
    \/ \E p \in Producers : GenMayRun(p) /\ Gen_increment_write(p)
    \/ \E p \in Producers : GenMayRun(p) /\ Gen_warm(p)
    \/ \E p \in Producers : GenMayRun(p) /\ Ctrl_throttle(p)
    \/ \E p \in Producers : GenMayRun(p) /\ Ctrl_throttle_wait(p)
    \/ \E c \in Consumers : ConMayRun(c) /\ Con_get(c)
    \/ \E c \in Consumers : ConMayRun(c) /\ Saver_save(c)
    \/ \E c \in Consumers : ConMayRun(c) /\ Saver_thumbnail_image(c)
    \/ MainMayRun /\ Main_start_controller
    \/ MainMayRun /\ Main_start_producers
    \/ MainMayRun /\ Main_start_consumers
    \/ MainMayRun /\ Main_join_consumers
    \/ MainMayRun /\ Main_drain
    \/ MainMayRun /\ Main_stop_controller
    \/ MainMayRun /\ Main_join_controller
    \/ MainMayRun /\ Main_stop_producers

SpecE2E == InitE2E /\ [][NextE2E]_vars

\* ------------------------------------------------ construction with any configuration
\* threading.BoundedSemaphore(value) raises ValueError for a negative value
\* and for nothing else
semaphore_init_raises(v) == v < 0

\* lines 288-290: Queue(maxsize=...) and ThumbnailURLController(rate_limit=...,
\* nthreads=...) store what they are given and never raise;
\* ThumbnailImageSemaSaver(limit=...) stores limit and builds the semaphore
Main_construct ==
    /\ mainPc = "construct"
    /\ IF semaphore_init_raises(limit)
       THEN mainPc' = "failed" /\ sem' = sem
       ELSE mainPc' = "start_controller" /\ sem' = limit
    /\ UNCHANGED <<cfgVars, queueVars, now, ctrlVars, prodVars, invocations, admitted,
                   denied, raised, released, nfail, consVars, mainIdx>>

\* values a configuration parameter is given: a proper one, zero, a negative one
ConfigValues(proper) == {proper, 0, -1}

\* the state before the constructors run, for every configuration
InitConfig ==
    /\ nconsumers = NConsumers
    /\ maxsize \in ConfigValues(Capacity)
    /\ limit \in ConfigValues(Limit)
    /\ rate_limit \in ConfigValues(RateLimit)
    /\ queue = <<>> /\ putSeq = 0 /\ outLog = <<>> /\ drained = 0
    /\ now = 0
    /\ count = 0 /\ ctrlFlag = TRUE /\ ctrlPc = "unstarted"
    /\ pflag = [p \in Producers |-> TRUE]
    /\ ppc = [p \in Producers |-> "unstarted"]
    /\ preg = [p \in Producers |-> 0]
    /\ sleep_time = [p \in Producers |-> InitSleep * SleepScale]
    /\ wake = [p \in Producers |-> 0]
    /\ sem = 0
    /\ cflag = [c \in 1..NConsumers |-> TRUE]
    /\ cpc = [c \in 1..NConsumers |-> "unstarted"]
    /\ ccount = [c \in 1..NConsumers |-> 0]
    /\ curl = [c \in 1..NConsumers |-> 0]
    /\ invocations = 0 /\ admitted = 0 /\ denied = 0
    /\ raised = 0 /\ released = 0 /\ nfail = 0
    /\ mainPc = "construct" /\ mainIdx = 0

\* construction, then the pipeline under the coarse-grained scheduling of
\* NextE2E
NextConfig ==
    \/ Main_construct
    \/ NextE2E

SpecConfig == InitConfig /\ [][NextConfig]_vars

\* ------------------------------------------------ one consumer, a larger limit
\* the constructors with one consumer thread and one more admission slot:
\* the producers put as many urls as under Init
InitThrottle == InitWith(1, Capacity, Limit + 1, RateLimit)

\* the threads in runs where every image is fetched and saved
NextThrottle ==
    \/ Tick
    \/ ControllerStep
    \/ MainStep
    \/ \E p \in Producers : ProducerStep(p)
    \/ \E c \in Consumers : Con_get(c) \/ Saver_save(c) \/ Saver_thumbnail_image(c)

SpecThrottle == InitThrottle /\ [][NextThrottle]_vars

\* the clock advances and the controller thread and the producer threads are
\* scheduled; nothing is assumed of the orchestrator and of the consumers
FairnessThrottle ==
    /\ WF_vars(Tick)
    /\ WF_vars(ControllerStep)
    /\ \A p \in Producers : WF_vars(ProducerStep(p))

FairSpecThrottle == InitThrottle /\ [][NextThrottle]_vars /\ FairnessThrottle

\* ------------------------------------------------ a limit above the warm-up
\* the constructors with an admission limit that the consumers cannot reach
\* with the urls produced before the first throttle call
InitLongRun == InitWith(NConsumers, Capacity, 2 * WarmUp, RateLimit)

\* under the coarse-grained scheduling of NextE2E
SpecLongRun == InitLongRun /\ [][NextE2E]_vars

\* ------------------------------------------------------------ properties
\* acquire() calls that returned True: every save() call makes exactly one
\* acquire() call, and the denied ones are those that returned False
Acquired == invocations - denied

\* slots currently granted by the guard
Granted == limit - sem

\* increment() calls that have started and not yet stored their result
IncrementsInProgress == Cardinality({p \in Producers : ppc[p] \in {"inc_read", "inc_write"}})

\* C1: as long as no release() has been made, at most `limit` acquire() calls
\* have returned True, and as soon as more than `limit` calls have been made
\* exactly `limit` of them have returned True and all the others False.
C1_AdmissionExactness ==
    released = 0 =>
        /\ Acquired <= limit
        /\ invocations > limit => (Acquired = limit /\ denied = invocations - limit)

\* C1 witness: more calls than the limit, no release, two consumers involved
C1_Witness ==
    /\ released = 0
    /\ invocations > limit
    /\ \A c \in Consumers : ccount[c] > 0

\* C4: when no increment() call is in progress, controller.count equals the
\* number of increment() calls made (one after every completed put).
C4_NoLostIncrement == IncrementsInProgress = 0 => count = putSeq

\* C5: a failure of the external save never ends a consumer thread: no save()
\* call ends by raising, and every failure has released its slot.
C5_SaveFailureContained ==
    /\ raised = 0
    /\ released = nfail
    /\ \A c \in Consumers : cpc[c] # "crashed"

\* C6: the number of granted slots stays within 0..limit, and wherever
\* release() can be called (a consumer is inside thumbnail_image) the
\* semaphore is below its initial value, so that release() cannot raise.
C6_GuardCounter ==
    /\ 0 <= Granted /\ Granted <= limit
    /\ sem + Cardinality({c \in Consumers : cpc[c] = "image"}) <= limit

\* C6 witness: a release has been made and the guard is full again
C6_Witness == released > 0 /\ Granted = limit

\* C7: at the end of a run every save() call has returned True or False, and
\* no more than `limit` of them have returned True.
C7_FinalCounts ==
    mainPc = "done" => (admitted + denied = invocations /\ admitted <= limit)

\* C9: the queue never holds more than maxsize items, and a put completes
\* only from a state in which the queue is not full.
C9_Capacity ==
    /\ [](Len(queue) >= 0 /\ Len(queue) <= maxsize)
    /\ [][putSeq' # putSeq => Len(queue) < maxsize]_vars

\* C9 witness: the queue is full while a producer is inside put
C9_Witness == Len(queue) = maxsize /\ \E p \in Producers : ppc[p] = "put"

RECURSIVE SumCount(_)
SumCount(n) == IF n = 0 THEN 0 ELSE ccount[n] + SumCount(n - 1)

\* C10: the items removed so far followed by the items still queued are the
\* items put, in the order in which their puts completed, each exactly once;
\* and every removed item was taken by a consumer or by the drain.
C10_Fifo ==
    /\ outLog \o queue = [i \in 1..putSeq |-> i]
    /\ Len(outLog) = SumCount(nconsumers) + drained

\* C10 witness: both producers have put, both consumers have taken, the
\* drain has removed an item and items are still queued
C10_Witness ==
    /\ drained > 0
    /\ Len(queue) > 0
    /\ \A c \in Consumers : ccount[c] > 0
    /\ \A p \in Producers : ppc[p] \notin {"unstarted", "run", "put"}

\* the producer is inside controller.throttle
InThrottle(p) == ppc[p] \in {"throttle", "cond", "wait"}

\* controller.stop() has been called and the controller's loop has ended
ControllerStopped == ~ctrlFlag /\ ctrlPc = "done"

\* the producer waits on the condition and the only thread that notifies it,
\* the controller, has ended
OrphanedInWait(p) == ppc[p] = "wait" /\ ThreadEnded(ctrlPc)

\* the producer is inside put on a full queue and nothing takes items any
\* more: the consumers have ended and the orchestrator is past its drain
OrphanedInPut(p) ==
    /\ ppc[p] = "put" /\ full(queue)
    /\ \A c \in Consumers : ThreadEnded(cpc[c])
    /\ mainPc \in {"stop_controller", "join_controller", "stop_producers", "done"}

\* the consumer is inside get on an empty queue and no producer is left
OrphanedInGet(c) ==
    /\ cpc[c] = "run" /\ cflag[c] /\ empty(queue)
    /\ \A p \in Producers : ThreadEnded(ppc[p])

\* a thread that is orphaned stays so for ever: no step of any thread
\* changes its position or what it waits for
OrphanedIsForEver ==
    [][/\ \A p \in Producers : OrphanedInWait(p) => OrphanedInWait(p)'
       /\ \A p \in Producers : OrphanedInPut(p) => OrphanedInPut(p)'
       /\ \A c \in Consumers : OrphanedInGet(c) => OrphanedInGet(c)']_vars

\* C2: when the orchestrator has finished its stop sequence no producer and
\* no consumer is left blocked for ever in queue.put, queue.get or the
\* throttle wait (so that every one of them can still reach its end).
C2_NoOrphanedBlocking ==
    (mainPc = "done" /\ ControllerStopped) =>
        /\ \A p \in Producers : ~OrphanedInWait(p) /\ ~OrphanedInPut(p)
        /\ \A c \in Consumers : ~OrphanedInGet(c)

\* C3: once the controller has been stopped no producer is left in the wait
\* of throttle: from there it could never return, the controller being the
\* only thread that calls notify_all.
C3_ThrottleReleased ==
    ControllerStopped => \A p \in Producers : ~OrphanedInWait(p)

\* C2 and C3 as progress properties, for FairSpec
C2_EventuallyEnded ==
    (mainPc = "done") ~>
        ((\A p \in Producers : ThreadEnded(ppc[p])) /\ (\A c \in Consumers : ThreadEnded(cpc[c])))

C3_EventuallyReleased ==
    \A p \in Producers : [](ControllerStopped /\ InThrottle(p) => <>(~InThrottle(p)))

\* C8: in the end-to-end scenario, when the orchestrator has finished, 20
\* save() calls have returned True, at least one has returned False and the
\* queue is empty.
C8_EndToEnd ==
    mainPc = "done" => (admitted = 20 /\ denied >= 1 /\ Len(queue) = 0)
\* some worker thread has been started
WorkerStarted ==
    \/ ctrlPc # "unstarted"
    \/ \E p \in Producers : ppc[p] # "unstarted"
    \/ \E c \in Consumers : cpc[c] # "unstarted"

\* C11: no worker thread is ever started with a non-positive queue capacity,
\* admission limit or target rate: construction fails first.
C11_MalformedConfigRejected ==
    WorkerStarted => (maxsize > 0 /\ limit > 0 /\ rate_limit > 0)
\* C12: calc_rate never divides by zero: no thread is ended by the
\* ZeroDivisionError of a call made when the clock still reads start_t.
C12_NoDivisionByZero ==
    /\ ctrlPc # "crashed"
    /\ \A p \in Producers : ppc[p] # "crashed"
\* the controller's background loop is running: started, not stopped, not ended
ControllerRunning == ctrlFlag /\ ctrlPc \in {"run", "notify"}

\* the aggregate rate is below the target
RateBelow == now > 0 /\ calc_rate(count, now) < scaled_limit

\* C13: while the controller is running, a producer waiting in throttle when
\* the rate has fallen below the target is eventually released from throttle
\* (or the controller has stopped first).
C13_WaiterReleased ==
    \A p \in Producers :
        (ppc[p] = "wait" /\ ControllerRunning /\ RateBelow)
            ~> (~InThrottle(p) \/ ~ControllerRunning)

\* every producer is waiting in throttle, the rate is below the target and the
\* running controller is about to notify
C13_Witness ==
    /\ ControllerRunning /\ RateBelow /\ ctrlPc = "notify"
    /\ \A p \in Producers : ppc[p] = "wait"
\* the aggregate rate 60 * count / elapsed is above, or equal to, the target
RateAbove == now > 0 /\ 60 * count > rate_limit * now
RateEqual == now > 0 /\ 60 * count = rate_limit * now

C15_SleepFloor ==
    /\ [](\A p \in Producers : sleep_time[p] >= 0)
    /\ [][\A p \in Producers :
            /\ (ppc[p] = "throttle" /\ ppc'[p] # "throttle" /\ RateBelow) =>
                  /\ sleep_time'[p] * now * nthreads * 60
                         = Max(0, sleep_time[p] * now * nthreads * 60
                                    - (rate_limit * now - 60 * count) * SleepScale)
                  /\ ppc'[p] = "run"
            /\ (ppc[p] = "throttle" /\ ppc'[p] # "throttle" /\ RateEqual) =>
                  /\ sleep_time'[p] = sleep_time[p]
                  /\ ppc'[p] = "run"
         ]_vars

\* a producer's sleep_time has been lowered to the floor
C15_Witness == \E p \in Producers : sleep_time[p] = 0 /\ ppc[p] = "run"

\* C16: the orchestrator drains only when every consumer has ended, stops the
\* controller only after the drain, and clears a producer's flag only when the
\* controller has been stopped and joined.
C16_OrchestratorOrder ==
    /\ (mainPc = "drain" \/ drained > 0) => \A c \in Consumers : ThreadEnded(cpc[c])
    /\ ~ctrlFlag => mainPc \in {"join_controller", "stop_producers", "done"}
    /\ (\E p \in Producers : ~pflag[p]) =>
          /\ ~ctrlFlag /\ ThreadEnded(ctrlPc)
          /\ mainPc \in {"stop_producers", "done"}
          /\ \A c \in Consumers : ThreadEnded(cpc[c])

\* the orchestrator has drained an item and gone through every stage
C16_Witness == mainPc = "done" /\ drained > 0 /\ \A p \in Producers : ~pflag[p]
\* the consumer is blocked in queue.get() on an empty queue and no producer
\* will put again: each has ended or waits for a controller that has ended
StarvedConsumer(c) ==
    /\ cpc[c] = "run" /\ cflag[c] /\ empty(queue)
    /\ \A p \in Producers : OrphanedInWait(p) \/ ThreadEnded(ppc[p])

\* a starved consumer stays starved
StarvedIsForEver ==
    [][\A c \in Consumers : StarvedConsumer(c) => StarvedConsumer(c)']_vars

\* C17: every consumer eventually stops: no consumer is left blocked for ever
\* on an empty queue while the producers are held in throttle.
C17_NoConsumerStarved == \A c \in Consumers : ~StarvedConsumer(c)
\* C18: a consumer leaves its loop only on a save() that returned False: an
\* ended consumer has left by the break, the denied calls are one for each
\* ended consumer, and the consumers' counts add up to the items they took
\* from the queue.
C18_LeavesOnlyOnDenial ==
    /\ \A c \in Consumers : ThreadEnded(cpc[c]) => (cpc[c] = "done" /\ cflag[c])
    /\ denied = Cardinality({c \in Consumers : cpc[c] = "done"})
    /\ SumCount(nconsumers) = Len(outLog) - drained

C20_SingleWriter ==
    [][/\ \A p \in Producers :
            /\ sleep_time'[p] # sleep_time[p] =>
                  /\ ppc[p] = "throttle" /\ ppc'[p] # "throttle"
                  /\ \A q \in Producers \ {p} :
                         sleep_time'[q] = sleep_time[q] /\ ppc'[q] = ppc[q]
                  /\ ctrlPc' = ctrlPc /\ ctrlFlag' = ctrlFlag
            /\ (InThrottle(p) /\ ppc'[p] # ppc[p]) =>
                  /\ count' = count /\ now' = now /\ rate_limit' = rate_limit
                  /\ preg' = preg /\ pflag' = pflag
       /\ ctrlPc' # ctrlPc => sleep_time' = sleep_time
      ]_vars

\* one producer's sleep_time has been raised and another's lowered
C20_Witness ==
    \E p, q \in Producers :
        /\ sleep_time[p] > InitSleep * SleepScale
        /\ sleep_time[q] < InitSleep * SleepScale
====
